---- MODULE Spec2Model ----
(***************************************************************************)
(* Budget reallocation of ad_ops_helper_functions.py: get_num_flights,     *)
(* get_budget, update_flight_level_budgets and the loop of update_budgets. *)
(*                                                                         *)
(* A flights table is a sequence of rows (records); a package-budget table *)
(* is a set of date columns (Header_<d> and Values_<d> exist together, as  *)
(* create_new_budget_columns makes them) and a sequence of rows.           *)
(* Numbers are exact rationals n/d in lowest terms; the missing value NaN  *)
(* and the infinity that numpy's division by a zero count yields are       *)
(* separate kinds of value.                                                *)
(***************************************************************************)
EXTENDS Integers, Sequences, FiniteSets, TLC

VARIABLES df1, df2, packages_to_process, start_dates,
          unique_packages, unique_start_dates, pi, di,
          pc, err, call, df1_at_call, df2_at_call, log, result1

vars == <<df1, df2, packages_to_process, start_dates,
          unique_packages, unique_start_dates, pi, di,
          pc, err, call, df1_at_call, df2_at_call, log, result1>>

(* ---------------------------- bounds ----------------------------------- *)
MaxFlights == 2
MaxBudgetRows == 1

Packages == {"P1", "P2"}
Dates == {"D1", "D2"}

(* ---------------------------- values ----------------------------------- *)
RECURSIVE GCD(_, _)
GCD(a, b) == IF b = 0 THEN a ELSE GCD(b, a % b)

Num(a, b) == [k |-> "num", n |-> a \div GCD(a, b), d |-> b \div GCD(a, b)]
NaN == [k |-> "nan", n |-> 0, d |-> 1]
Inf == [k |-> "inf", n |-> 0, d |-> 1]
NoValue == [k |-> "none", n |-> 0, d |-> 1]

\* budget / num_flights (line 289): numpy true division of a non-negative
\* sum by an integer count; a zero count raises nothing, it yields nan or inf.
TrueDivide(budget, num_flights) ==
    IF num_flights = 0
    THEN IF budget = 0 THEN NaN ELSE Inf
    ELSE Num(budget, num_flights)

InitialBudgets == {NaN, Num(5, 1)}

\* the amount every row carries in column Values_<start_date>
ValueOf(start_date) == IF start_date = "D1" THEN 6 ELSE 4

(* ---------------------------- tables ----------------------------------- *)
Range(s) == {s[i] : i \in DOMAIN s}

SeqsUpTo(S, lo, hi) == UNION {[1..n -> S] : n \in lo..hi}

PackageRank(p) == IF p = "P1" THEN 0 ELSE 1
DateRank(d) == IF d = "D1" THEN 0 ELSE 1

FlightRows == [Package_Name : Packages, Start_Date : Dates, Budget : InitialBudgets]

FlightRowRank(r) ==
    PackageRank(r.Package_Name) * 4 + DateRank(r.Start_Date) * 2
    + (IF r.Budget.k = "nan" THEN 0 ELSE 1)

\* The flights tables handed to update_budgets. The row masks are computed
\* row by row, so tables are enumerated up to the order of their rows.
\* Flight_ID stands for the columns other than the three the loop reads.
FlightTables ==
    {[i \in DOMAIN t |-> [Flight_ID |-> i,
                          Package_Name |-> t[i].Package_Name,
                          Start_Date |-> t[i].Start_Date,
                          Budget |-> t[i].Budget]] :
        t \in {u \in SeqsUpTo(FlightRows, 0, MaxFlights) :
                  \A i \in DOMAIN u : \A j \in DOMAIN u :
                      i < j => FlightRowRank(u[i]) <= FlightRowRank(u[j])}}

BudgetRows(c) ==
    [Package_Name : Packages, Header : [c -> Dates],
     Values : {[d \in c |-> ValueOf(d)]}]

BudgetRowRank(r, c) ==
    PackageRank(r.Package_Name) * 4
    + (IF "D1" \in c THEN DateRank(r.Header["D1"]) * 2 ELSE 0)
    + (IF "D2" \in c THEN DateRank(r.Header["D2"]) ELSE 0)

\* The package-budget tables: either both dates have their Header_/Values_
\* columns or only D1 has; rows again up to their order.
BudgetTables ==
    UNION {{[cols |-> c,
             rows |-> t] :
              t \in {u \in SeqsUpTo(BudgetRows(c), 0, MaxBudgetRows) :
                        \A i \in DOMAIN u : \A j \in DOMAIN u :
                            i < j => BudgetRowRank(u[i], c) <= BudgetRowRank(u[j], c)}} :
           c \in {Dates, {"D1"}}}

\* the packages_to_process and start_dates lists: a single entry, two
\* distinct entries, and both entries with one of them repeated
PackageLists ==
    {<<"P1">>, <<"P1", "P2", "P1">>}
DateLists ==
    {<<"D1">>, <<"D1", "D2">>, <<"D2", "D1", "D2">>}

(* ---------------------------- helpers ---------------------------------- *)
\* the boolean mask (df['Package Name'] == package) & (df['Start Date'] == start_date)
FlightMask(df, package, start_date) ==
    {i \in DOMAIN df : df[i].Package_Name = package /\ df[i].Start_Date = start_date}

get_num_flights_ignores_date(df, package, start_date) ==
    Cardinality({i \in DOMAIN df : df[i].Package_Name = package
                                   /\ df[i].Budget.k # "nan"})

\* Series.count(): the number of non-missing values of the selection
get_num_flights(df, package, start_date) ==
    Cardinality({i \in FlightMask(df, package, start_date) : df[i].Budget.k # "nan"})

RECURSIVE SumOver(_, _)
SumOver(f, S) ==
    IF S = {} THEN 0
    ELSE LET x == CHOOSE y \in S : TRUE IN f[x] + SumOver(f, S \ {x})

\* df[header_start_date] and the .loc on value_start_date raise KeyError
\* when the table has no such column
HasBudgetColumns(df, start_date) == start_date \in df.cols

BudgetMask(df, package, start_date) ==
    {i \in DOMAIN df.rows : df.rows[i].Package_Name = package
                            /\ df.rows[i].Header[start_date] = start_date}

get_budget_defaults_missing(df, package, start_date) ==
    IF ~HasBudgetColumns(df, start_date)
    THEN [err |-> "none", val |-> 0]
    ELSE [err |-> "none",
          val |-> SumOver([i \in DOMAIN df.rows |-> df.rows[i].Values[start_date]],
                          BudgetMask(df, package, start_date))]

get_budget(df, package, start_date) ==
    IF ~HasBudgetColumns(df, start_date)
    THEN [err |-> "KeyError", val |-> 0]
    ELSE [err |-> "none",
          val |-> SumOver([i \in DOMAIN df.rows |-> df.rows[i].Values[start_date]],
                          BudgetMask(df, package, start_date))]

update_flight_level_budgets_selection(df, package, start_date, flight_level_budget) ==
    LET sel == SelectSeq(df, LAMBDA r : r.Package_Name = package
                                        /\ r.Start_Date = start_date)
    IN [i \in DOMAIN sel |-> [sel[i] EXCEPT !.Budget = flight_level_budget]]

update_flight_level_budgets_or_mask(df, package, start_date, flight_level_budget) ==
    [i \in DOMAIN df |->
        IF df[i].Package_Name = package \/ df[i].Start_Date = start_date
        THEN [df[i] EXCEPT !.Budget = flight_level_budget]
        ELSE df[i]]

update_flight_level_budgets(df, package, start_date, flight_level_budget) ==
    [i \in DOMAIN df |->
        IF i \in FlightMask(df, package, start_date)
        THEN [df[i] EXCEPT !.Budget = flight_level_budget]
        ELSE df[i]]

\* the lists that hold every element of S once
DistinctLists(S) == {q \in [1..Cardinality(S) -> S] : Range(q) = S}

UniqueLists_keeps_duplicates(xs) == {xs}

\* list(set(xs)): the distinct entries, in an order the caller does not control
UniqueLists(xs) == DistinctLists(Range(xs))

\* update_budgets as a function of its arguments, for lists of distinct
\* entries walked in the given order and tables that have every column:
\* the loops of lines 283-291 from position (i, j) on
RECURSIVE update_budgets_from(_, _, _, _, _, _)
update_budgets_from(d1, d2, ups, uds, i, j) ==
    IF i > Len(ups) \/ Len(uds) = 0 THEN d1
    ELSE LET num_flights == get_num_flights(d1, ups[i], uds[j])
             budget == get_budget(d2, ups[i], uds[j])
             flight_level_budget == TrueDivide(budget.val, num_flights)
             updated == update_flight_level_budgets(d1, ups[i], uds[j],
                                                    flight_level_budget)
         IN IF j < Len(uds)
            THEN update_budgets_from(updated, d2, ups, uds, i, j + 1)
            ELSE update_budgets_from(updated, d2, ups, uds, i + 1, 1)

Pairs == Packages \X Dates
EmptyLog == [pr \in Pairs |-> [times |-> 0, n |-> 0, total |-> 0, value |-> NoValue]]

(* ---------------------------- the program ------------------------------ *)
Init ==
    /\ df1 \in FlightTables
    /\ df2 \in BudgetTables
    /\ packages_to_process \in PackageLists
    /\ start_dates \in DateLists
    /\ unique_packages = <<>>
    /\ unique_start_dates = <<>>
    /\ pi = 1
    /\ di = 1
    /\ pc = "ready"
    /\ err = "none"
    /\ call = 0
    /\ df1_at_call = df1
    /\ df2_at_call = df2
    /\ log = EmptyLog
    /\ result1 = <<>>

\* update_budgets is entered (lines 280-281); the second entry is the caller
\* passing the returned table back in with the same other arguments.
Call ==
    /\ pc = "ready" \/ (pc = "done" /\ call = 1)
    /\ unique_packages' \in UniqueLists(packages_to_process)
    /\ unique_start_dates' \in UniqueLists(start_dates)
    /\ pi' = 1
    /\ di' = 1
    /\ pc' = "loop"
    /\ call' = call + 1
    /\ df1_at_call' = df1
    /\ df2_at_call' = df2
    /\ log' = EmptyLog
    /\ UNCHANGED <<df1, df2, packages_to_process, start_dates, err, result1>>

MorePairs == pi <= Len(unique_packages) /\ di <= Len(unique_start_dates)

\* one pass of the inner loop body (lines 287-291)
Iterate ==
    /\ pc = "loop"
    /\ MorePairs
    /\ LET package == unique_packages[pi]
           start_date == unique_start_dates[di]
           num_flights == get_num_flights(df1, package, start_date)
           budget == get_budget(df2, package, start_date)
           flight_level_budget == TrueDivide(budget.val, num_flights)
       IN IF budget.err # "none"
          THEN /\ pc' = "failed"
               /\ err' = budget.err
               /\ UNCHANGED <<df1, log, pi, di>>
          ELSE /\ df1' = update_flight_level_budgets(df1, package, start_date,
                                                     flight_level_budget)
               /\ log' = [log EXCEPT ![<<package, start_date>>] =
                             [times |-> @.times + 1, n |-> num_flights,
                              total |-> budget.val, value |-> flight_level_budget]]
               /\ IF di < Len(unique_start_dates)
                  THEN di' = di + 1 /\ pi' = pi
                  ELSE di' = 1 /\ pi' = pi + 1
               /\ UNCHANGED <<pc, err>>
    /\ UNCHANGED <<df2, packages_to_process, start_dates, unique_packages,
                   unique_start_dates, call, df1_at_call, df2_at_call,
                   result1>>

\* return df1 (line 293)
Return ==
    /\ pc = "loop"
    /\ ~MorePairs
    /\ pc' = "done"
    /\ result1' = IF call = 1 THEN df1 ELSE result1
    /\ unique_packages' = <<>>
    /\ unique_start_dates' = <<>>
    /\ pi' = 1
    /\ di' = 1
    /\ UNCHANGED <<df1, df2, packages_to_process, start_dates, err, call,
                   df1_at_call, df2_at_call, log>>

Next == Call \/ Iterate \/ Return

Spec == Init /\ [][Next]_vars

(* ---------------------------- properties ------------------------------- *)
\* the pairs of distinct(packages) x distinct(start_dates)
Product == Range(packages_to_process) \X Range(start_dates)

KeyOf(r) == <<r.Package_Name, r.Start_Date>>

\* the rows of the flight group of a pair, whatever their Budget
GroupOf(df, pr) == {i \in DOMAIN df : KeyOf(df[i]) = pr}

Changed(i) == df1[i].Budget # df1_at_call[i].Budget

\* C1: after update_budgets returns, every row of the flight group of a
\* processed pair with n > 0 rows has Budget = B / n, n the number of rows
\* of the group and B the sum of Values_d over the matching budget rows.
C1_GroupBudget ==
    pc = "done" =>
        \A pr \in Product :
            LET g == GroupOf(df1, pr) IN
            g # {} =>
                \A i \in g :
                    df1[i].Budget = Num(get_budget(df2, pr[1], pr[2]).val, Cardinality(g))

\* C2: a second update_budgets with the same package budgets, packages and
\* start dates on the table the first one returned returns an equal table.
C2_Idempotent == (pc = "done" /\ call = 2) => df1 = result1

\* C3: a pair whose computed flight count is 0 is either refused with a
\* division error or skipped: it is never completed with a not-a-number or
\* infinite value written into a row, and the rows of its group are left
\* as they were.
C3_NoDivisionByZeroValue ==
    \A pr \in Pairs :
        (log[pr].times > 0 /\ log[pr].n = 0) =>
            \A i \in GroupOf(df1, pr) :
                /\ df1[i].Budget = df1_at_call[i].Budget
                /\ df1[i].Budget.k # "inf"

\* C4: update_budgets changes nothing but Budget values: the flights table
\* keeps its rows, their number, their columns and every field other than
\* Budget, and the package-budget table is as it was passed in.
C4_OnlyBudgetChanges ==
    /\ Len(df1) = Len(df1_at_call)
    /\ \A i \in DOMAIN df1 :
          /\ DOMAIN df1[i] = DOMAIN df1_at_call[i]
          /\ \A f \in DOMAIN df1[i] \ {"Budget"} : df1[i][f] = df1_at_call[i][f]
    /\ df2 = df2_at_call

C4_Witness == pc = "done" /\ \E i \in DOMAIN df1 : Changed(i)

\* C5: the step that processes pair (p, d) changes the Budget of rows of
\* key (p, d) only, and a row whose key is not in distinct(packages) x
\* distinct(start_dates) keeps the Budget it had before the call.
C5_Disjoint ==
    /\ [](\A i \in DOMAIN df1 : KeyOf(df1[i]) \notin Product => ~Changed(i))
    /\ [][\A i \in DOMAIN df1 :
            df1'[i].Budget # df1[i].Budget =>
                /\ pc = "loop"
                /\ MorePairs
                /\ KeyOf(df1[i]) = <<unique_packages[pi], unique_start_dates[di]>>]_vars

C5_Witness ==
    /\ pc = "done"
    /\ \E i \in DOMAIN df1 : \E j \in DOMAIN df1 :
          /\ Changed(i)
          /\ KeyOf(df1[j]) \notin Product
          /\ df1[j].Budget.k = "num"

\* C6: with lists that repeat entries update_budgets returns what it returns
\* for the lists of their distinct values, and it processes every pair of the
\* Cartesian product of the distinct values exactly once.
C6_Deduplicated ==
    pc = "done" =>
        /\ \A pr \in Pairs : log[pr].times = IF pr \in Product THEN 1 ELSE 0
        /\ \A ups \in DistinctLists(Range(packages_to_process)) :
           \A uds \in DistinctLists(Range(start_dates)) :
              df1 = update_budgets_from(df1_at_call, df2, ups, uds, 1, 1)

C6_Witness ==
    /\ pc = "done"
    /\ Len(packages_to_process) > Cardinality(Range(packages_to_process))
    /\ Len(start_dates) > Cardinality(Range(start_dates))
    /\ \E i \in DOMAIN df1 : Changed(i)

\* C7: a processed pair with n > 0 flight rows and no budget row of its
\* package whose Header_d is d has aggregate 0, and every row of its group
\* ends with Budget = 0.
C7_ZeroAggregate ==
    pc = "done" =>
        \A pr \in Product :
            (GroupOf(df1, pr) # {} /\ BudgetMask(df2, pr[1], pr[2]) = {}) =>
                /\ log[pr].total = 0
                /\ \A i \in GroupOf(df1, pr) : df1[i].Budget = Num(0, 1)

\* C8: the count get_num_flights returns for a pair is the number of rows
\* whose Package Name and Start Date equal the pair's, 0 when there is none.
C8_CountsRows ==
    \A pr \in Pairs :
        log[pr].times > 0 => log[pr].n = Cardinality(GroupOf(df1_at_call, pr))

\* C9: the count, the aggregate and the value of every iteration are those
\* computed from the tables as passed in, whatever was processed before it,
\* so the returned table is the same for every order of the pairs.
C9_OrderIndependent ==
    /\ \A pr \in Pairs :
          log[pr].times > 0 =>
              /\ log[pr].n = get_num_flights(df1_at_call, pr[1], pr[2])
              /\ log[pr].total = get_budget(df2_at_call, pr[1], pr[2]).val
              /\ log[pr].value = TrueDivide(log[pr].total, log[pr].n)
    /\ pc = "done" =>
          \A i \in DOMAIN df1 :
              df1[i].Budget =
                  IF KeyOf(df1[i]) \in Product
                  THEN TrueDivide(
                         get_budget(df2_at_call, df1[i].Package_Name, df1[i].Start_Date).val,
                         get_num_flights(df1_at_call, df1[i].Package_Name, df1[i].Start_Date))
                  ELSE df1_at_call[i].Budget

C9_Witness ==
    /\ pc = "done"
    /\ unique_packages = <<>>
    /\ \E i \in DOMAIN df1 : \E j \in DOMAIN df1 :
          /\ KeyOf(df1[i]) # KeyOf(df1[j])
          /\ Changed(i)
          /\ Changed(j)

\* C10: at a pair whose start date has no Header_/Values_ column the call
\* fails with the missing-column error and writes no Budget for that pair;
\* rows of pairs processed before keep the value written for them and all
\* other rows keep the Budget they had at the call.
C10_FailsWithoutRollback ==
    /\ \A pr \in Pairs : log[pr].times > 0 => pr[2] \in df2.cols
    /\ pc # "failed" => err = "none"
    /\ pc = "failed" =>
          /\ err = "KeyError"
          /\ MorePairs
          /\ unique_start_dates[di] \notin df2.cols
          /\ log[<<unique_packages[pi], unique_start_dates[di]>>].times = 0
          /\ \A i \in DOMAIN df1 :
                df1[i].Budget = IF log[KeyOf(df1[i])].times > 0
                                THEN log[KeyOf(df1[i])].value
                                ELSE df1_at_call[i].Budget

C10_Witness ==
    /\ pc = "failed"
    /\ \E i \in DOMAIN df1 : Changed(i)
    /\ \E j \in DOMAIN df1 :
          KeyOf(df1[j]) = <<unique_packages[pi], unique_start_dates[di]>>

====
